---- MODULE Spec2Model ----
(***************************************************************************)
(* AwsBeanstalkDetector (opentelemetry-resource-detector-aws).             *)
(*                                                                         *)
(* detect() probes the X-Ray environment.conf for read access, reads it,   *)
(* parses it as JSON and maps three of its fields into a Resource.  Any    *)
(* exception inside the try block is logged at debug level and turned into *)
(* the empty Resource.  The module models the detector instance, the file  *)
(* system it reads, a bounded number of detect() calls that may overlap at *)
(* the two awaits, the diagnostic sink and the passing of time.            *)
(***************************************************************************)
EXTENDS Integers, Sequences, FiniteSets, TLC

VARIABLES
    platform,             \* process.platform
    BEANSTALK_CONF_PATH,  \* the detector's only field
    fs,                   \* file system: path -> file state
    changes,              \* number of external changes made to fs so far
    pc,                   \* per call: position inside detect()
    config,               \* per call: the _config argument
    elapsed,              \* per call: time spent since the call started
    settled,              \* per call: state of the promise returned by detect
    result,               \* per call: attributes of the Resource resolved with
    probeSaw,             \* per call: file state the access probe observed
    readSaw,              \* per call: file state the read observed
    trace,                \* per call: the calls detect() made, in order
    diagSink              \* messages received by the diag logger, in order

vars == <<platform, BEANSTALK_CONF_PATH, fs, changes, pc, config, elapsed,
          settled, result, probeSaw, readSaw, trace, diagSink>>

-----------------------------------------------------------------------------
(* Bounds *)

NumCalls == 2         \* detect() calls issued on the shared instance
MaxChanges == 1       \* external modifications of the file system
MaxElapsed == 2       \* ticks of the clock observed per call
MaxTimeout == 1       \* largest configured timeout, in ticks

Calls == 1..NumCalls

-----------------------------------------------------------------------------
(* Program constants *)

DEFAULT_BEANSTALK_CONF_PATH == "/var/elasticbeanstalk/xray/environment.conf"
WIN_OS_BEANSTALK_CONF_PATH == "C:\\Program Files\\Amazon\\XRay\\environment.conf"

Paths == {DEFAULT_BEANSTALK_CONF_PATH, WIN_OS_BEANSTALK_CONF_PATH}
Platforms == {"linux", "win32"}

CLOUD_PROVIDER == "cloud.provider"
CLOUD_PLATFORM == "cloud.platform"
SERVICE_NAME == "service.name"
SERVICE_NAMESPACE == "service.namespace"
SERVICE_VERSION == "service.version"
SERVICE_INSTANCE_ID == "service.instance.id"

AWS == "aws"
AWS_ELASTIC_BEANSTALK == "aws_elastic_beanstalk"

-----------------------------------------------------------------------------
(* JavaScript values.  A scalar is [type, v]; a parsed JSON value carries   *)
(* in addition the members of an object (empty for every other type).      *)

Str(s) == [type |-> "string", v |-> s]
Num(s) == [type |-> "number", v |-> s]
Null == [type |-> "null", v |-> ""]
Undefined == [type |-> "undefined", v |-> ""]

NoMembers == [k \in {} |-> Undefined]

Value(scalar, members) ==
    [type |-> scalar.type, v |-> scalar.v, members |-> members]

-----------------------------------------------------------------------------
(* File contents are sequences of JSON tokens. *)

Punct(s) == [k |-> "punct", v |-> s]
StrTok(s) == [k |-> "string", v |-> s]
NumTok(s) == [k |-> "number", v |-> s]
NullTok == [k |-> "null", v |-> "null"]

IsScalarTok(t) == t.k \in {"string", "number", "null"}

ScalarOf(t) ==
    IF t.k = "string" THEN Str(t.v)
    ELSE IF t.k = "number" THEN Num(t.v)
    ELSE Null

Put(members, key, val) ==
    [k \in DOMAIN members \cup {key} |-> IF k = key THEN val ELSE members[k]]

\* members of an object, from the token after "{" or after a ","
RECURSIVE ParseMembers(_, _, _)
ParseMembers(toks, i, acc) ==
    IF i + 3 > Len(toks) THEN [ok |-> FALSE, members |-> NoMembers]
    ELSE IF ~(toks[i].k = "string" /\ toks[i + 1] = Punct(":")
              /\ IsScalarTok(toks[i + 2]))
    THEN [ok |-> FALSE, members |-> NoMembers]
    ELSE LET next == Put(acc, toks[i].v, ScalarOf(toks[i + 2]))
         IN  IF toks[i + 3] = Punct("}")
             THEN [ok |-> i + 3 = Len(toks), members |-> next]
             ELSE IF toks[i + 3] = Punct(",")
             THEN ParseMembers(toks, i + 4, next)
             ELSE [ok |-> FALSE, members |-> NoMembers]

\* elements of an array, from the token after "[" or after a ","
RECURSIVE ParseElements(_, _)
ParseElements(toks, i) ==
    IF i + 1 > Len(toks) THEN FALSE
    ELSE IF ~IsScalarTok(toks[i]) THEN FALSE
    ELSE IF toks[i + 1] = Punct("]") THEN i + 1 = Len(toks)
    ELSE IF toks[i + 1] = Punct(",") THEN ParseElements(toks, i + 2)
    ELSE FALSE

SyntaxError == [throws |-> TRUE, value |-> Value(Undefined, NoMembers)]
Parsed(val) == [throws |-> FALSE, value |-> val]

\* JSON.parse(rawData): the parsed value, or a SyntaxError
JSONParse(toks) ==
    IF Len(toks) = 0 THEN SyntaxError
    ELSE IF Len(toks) = 1
    THEN IF IsScalarTok(toks[1])
         THEN Parsed(Value(ScalarOf(toks[1]), NoMembers))
         ELSE SyntaxError
    ELSE IF toks[1] = Punct("{")
    THEN IF Len(toks) = 2
         THEN IF toks[2] = Punct("}")
              THEN Parsed(Value([type |-> "object", v |-> ""], NoMembers))
              ELSE SyntaxError
         ELSE LET m == ParseMembers(toks, 2, NoMembers)
              IN  IF m.ok
                  THEN Parsed(Value([type |-> "object", v |-> ""], m.members))
                  ELSE SyntaxError
    ELSE IF toks[1] = Punct("[")
    THEN IF (Len(toks) = 2 /\ toks[2] = Punct("]")) \/ ParseElements(toks, 2)
         THEN Parsed(Value([type |-> "array", v |-> ""], NoMembers))
         ELSE SyntaxError
    ELSE SyntaxError

\* parsedData.<name>: a TypeError on null, undefined for a missing property
GetProp(val, name) ==
    IF val.type \in {"null", "undefined"}
    THEN [throws |-> TRUE, value |-> Undefined]
    ELSE IF name \in DOMAIN val.members
    THEN [throws |-> FALSE, value |-> val.members[name]]
    ELSE [throws |-> FALSE, value |-> Undefined]

-----------------------------------------------------------------------------
(* The file system seen through fs.access and fs.readFile. *)

Absent == [kind |-> "absent", data |-> <<>>]
Denied == [kind |-> "denied", data |-> <<>>]
File(toks) == [kind |-> "file", data |-> toks]

Member(key, tok) == <<StrTok(key), Punct(":"), tok>>

\* {"environment_name":"prod","version_label":"v1","deployment_id":"i-123"}
ConfProd ==
    <<Punct("{")>> \o Member("environment_name", StrTok("prod")) \o <<Punct(",")>>
        \o Member("version_label", StrTok("v1")) \o <<Punct(",")>>
        \o Member("deployment_id", StrTok("i-123")) \o <<Punct("}")>>

\* {"deployment_id":"i-456","environment_name":"staging","version_label":"v2"}
ConfStaging ==
    <<Punct("{")>> \o Member("deployment_id", StrTok("i-456")) \o <<Punct(",")>>
        \o Member("environment_name", StrTok("staging")) \o <<Punct(",")>>
        \o Member("version_label", StrTok("v2")) \o <<Punct("}")>>

\* {"environment_name":"prod","deployment_id":"i-123"}
ConfNoVersion ==
    <<Punct("{")>> \o Member("environment_name", StrTok("prod")) \o <<Punct(",")>>
        \o Member("deployment_id", StrTok("i-123")) \o <<Punct("}")>>

\* {"environment_name":null,"version_label":"v1","deployment_id":"i-123"}
ConfNullName ==
    <<Punct("{")>> \o Member("environment_name", NullTok) \o <<Punct(",")>>
        \o Member("version_label", StrTok("v1")) \o <<Punct(",")>>
        \o Member("deployment_id", StrTok("i-123")) \o <<Punct("}")>>

\* {"environment_name":"prod","version_label":"v1"     (truncated)
ConfTruncated ==
    <<Punct("{")>> \o Member("environment_name", StrTok("prod")) \o <<Punct(",")>>
        \o Member("version_label", StrTok("v1"))

ConfNumber == <<NumTok("42")>>                         \* 42
ConfString == <<StrTok("prod")>>                       \* "prod"
ConfArray == <<Punct("["), StrTok("prod"), Punct("]")>> \* ["prod"]
ConfNull == <<NullTok>>                                \* null

Contents ==
    {ConfProd, ConfStaging, ConfNoVersion, ConfNullName, ConfTruncated,
     ConfNumber, ConfString, ConfArray, ConfNull}

FileStates == {Absent, Denied} \cup {File(c) : c \in Contents}

\* outcome of fs.access(path, R_OK) and of fs.readFile(path, 'utf8')
IOError(state) ==
    IF state.kind = "absent" THEN "ENOENT"
    ELSE IF state.kind = "denied" THEN "EACCES"
    ELSE "none"

-----------------------------------------------------------------------------
(* The detector *)

\* a constructor that tests for a platform name Node never reports
ConfPathForWindows(p) ==
    IF p = "windows" THEN WIN_OS_BEANSTALK_CONF_PATH
    ELSE DEFAULT_BEANSTALK_CONF_PATH

\* constructor
ConfPathFor(p) ==
    IF p = "win32" THEN WIN_OS_BEANSTALK_CONF_PATH
    ELSE DEFAULT_BEANSTALK_CONF_PATH

AttributeKeys ==
    {CLOUD_PROVIDER, CLOUD_PLATFORM, SERVICE_NAME, SERVICE_NAMESPACE,
     SERVICE_VERSION, SERVICE_INSTANCE_ID}

\* an object literal with version_label and environment_name exchanged
AttributesSwapped(parsedData) ==
    [key \in AttributeKeys |->
        IF key = CLOUD_PROVIDER THEN Str(AWS)
        ELSE IF key = CLOUD_PLATFORM THEN Str(AWS_ELASTIC_BEANSTALK)
        ELSE IF key = SERVICE_NAME THEN Str(AWS_ELASTIC_BEANSTALK)
        ELSE IF key = SERVICE_NAMESPACE
        THEN GetProp(parsedData, "version_label").value
        ELSE IF key = SERVICE_VERSION
        THEN GetProp(parsedData, "environment_name").value
        ELSE GetProp(parsedData, "deployment_id").value]

\* the object literal handed to new Resource(...)
Attributes(parsedData) ==
    [key \in AttributeKeys |->
        IF key = CLOUD_PROVIDER THEN Str(AWS)
        ELSE IF key = CLOUD_PLATFORM THEN Str(AWS_ELASTIC_BEANSTALK)
        ELSE IF key = SERVICE_NAME THEN Str(AWS_ELASTIC_BEANSTALK)
        ELSE IF key = SERVICE_NAMESPACE
        THEN GetProp(parsedData, "environment_name").value
        ELSE IF key = SERVICE_VERSION
        THEN GetProp(parsedData, "version_label").value
        ELSE GetProp(parsedData, "deployment_id").value]

\* new Resource(attributes) keeps the attributes it is given
Resource(attributes) == attributes

\* Resource.empty()
EmptyResource == Resource([key \in {} |-> Undefined])

\* the statements of the try block after the read: JSON.parse and the literal
AfterRead(rawData) ==
    LET p == JSONParse(rawData)
    IN  IF p.throws THEN [throws |-> TRUE, error |-> "SyntaxError",
                          resource |-> EmptyResource]
        ELSE IF GetProp(p.value, "environment_name").throws
        THEN [throws |-> TRUE, error |-> "TypeError", resource |-> EmptyResource]
        ELSE [throws |-> FALSE, error |-> "none",
              resource |-> Resource(Attributes(p.value))]

Event(op, arg) == [op |-> op, arg |-> arg]

DiagMessage(c, cause) ==
    [level |-> "debug", call |-> c,
     message |-> <<"AwsBeanstalkDetector failed: ", cause>>]

\* a catch block that returns the empty Resource without logging
CatchSilent(c, cause, events) ==
    /\ diagSink' = diagSink
    /\ trace' = [trace EXCEPT ![c] = @ \o events \o <<Event("return", "empty")>>]
    /\ result' = [result EXCEPT ![c] = EmptyResource]
    /\ settled' = [settled EXCEPT ![c] = "fulfilled"]
    /\ pc' = [pc EXCEPT ![c] = "done"]

\* catch (e) { diag.debug(...); return Resource.empty(); }
Catch(c, cause, events) ==
    /\ diagSink' = Append(diagSink, DiagMessage(c, cause))
    /\ trace' = [trace EXCEPT ![c] = @ \o events \o
                    <<Event("diag.debug", cause), Event("return", "empty")>>]
    /\ result' = [result EXCEPT ![c] = EmptyResource]
    /\ settled' = [settled EXCEPT ![c] = "fulfilled"]
    /\ pc' = [pc EXCEPT ![c] = "done"]

\* the ResourceDetectionConfig every detector is called with
DetectionConfig == [timeout |-> MaxTimeout]
NoConfig == [timeout |-> 0]

Init ==
    /\ platform \in Platforms
    /\ BEANSTALK_CONF_PATH = ConfPathFor(platform)
    /\ \E s \in FileStates :
          fs = [p \in Paths |-> IF p = ConfPathFor(platform) THEN s ELSE Absent]
    /\ changes = 0
    /\ pc = [c \in Calls |-> "idle"]
    /\ config = [c \in Calls |-> NoConfig]
    /\ elapsed = [c \in Calls |-> 0]
    /\ settled = [c \in Calls |-> "none"]
    /\ result = [c \in Calls |-> EmptyResource]
    /\ probeSaw = [c \in Calls |-> Absent]
    /\ readSaw = [c \in Calls |-> Absent]
    /\ trace = [c \in Calls |-> <<>>]
    /\ diagSink = <<>>

\* detect(_config) up to the first await: fs.access is issued; calls are
\* numbered in the order in which they are made
DetectStart(c) ==
    /\ pc[c] = "idle"
    /\ \A d \in Calls : d < c => pc[d] # "idle"
    /\ pc' = [pc EXCEPT ![c] = "probing"]
    /\ config' = [config EXCEPT ![c] = DetectionConfig]
    /\ settled' = [settled EXCEPT ![c] = "pending"]
    /\ trace' = [trace EXCEPT ![c] = <<Event("access", BEANSTALK_CONF_PATH)>>]
    /\ UNCHANGED <<platform, BEANSTALK_CONF_PATH, fs, changes, elapsed, result,
                   probeSaw, readSaw, diagSink>>

ProbePath(c) == trace[c][1].arg
ReadPath(c) == trace[c][2].arg

\* a probe whose rejection is not awaited: the read is issued all the same
AccessFailsUnawaited(c) ==
    /\ pc[c] = "probing"
    /\ fs[ProbePath(c)].kind # "file"
    /\ probeSaw' = [probeSaw EXCEPT ![c] = fs[ProbePath(c)]]
    /\ trace' = [trace EXCEPT ![c] =
                    Append(@, Event("readFile", BEANSTALK_CONF_PATH))]
    /\ pc' = [pc EXCEPT ![c] = "reading"]
    /\ UNCHANGED <<platform, BEANSTALK_CONF_PATH, fs, changes, config, elapsed,
                   settled, result, readSaw, diagSink>>

\* the access probe rejects: the catch block runs
AccessFails(c) ==
    /\ pc[c] = "probing"
    /\ fs[ProbePath(c)].kind # "file"
    /\ probeSaw' = [probeSaw EXCEPT ![c] = fs[ProbePath(c)]]
    /\ Catch(c, IOError(fs[ProbePath(c)]), <<>>)
    /\ UNCHANGED <<platform, BEANSTALK_CONF_PATH, fs, changes, config, elapsed,
                   readSaw>>

\* the access probe resolves: fs.readFile is issued
AccessSucceeds(c) ==
    /\ pc[c] = "probing"
    /\ fs[ProbePath(c)].kind = "file"
    /\ probeSaw' = [probeSaw EXCEPT ![c] = fs[ProbePath(c)]]
    /\ trace' = [trace EXCEPT ![c] =
                    Append(@, Event("readFile", BEANSTALK_CONF_PATH))]
    /\ pc' = [pc EXCEPT ![c] = "reading"]
    /\ UNCHANGED <<platform, BEANSTALK_CONF_PATH, fs, changes, config, elapsed,
                   settled, result, readSaw, diagSink>>

\* the read rejects: the catch block runs
ReadFails(c) ==
    /\ pc[c] = "reading"
    /\ fs[ReadPath(c)].kind # "file"
    /\ readSaw' = [readSaw EXCEPT ![c] = fs[ReadPath(c)]]
    /\ Catch(c, IOError(fs[ReadPath(c)]), <<>>)
    /\ UNCHANGED <<platform, BEANSTALK_CONF_PATH, fs, changes, config, elapsed,
                   probeSaw>>

\* JSON.parse placed outside the try block: its exception rejects the promise
ReadThenRejects(c) ==
    /\ pc[c] = "reading"
    /\ fs[ReadPath(c)].kind = "file"
    /\ AfterRead(fs[ReadPath(c)].data).throws
    /\ readSaw' = [readSaw EXCEPT ![c] = fs[ReadPath(c)]]
    /\ trace' = [trace EXCEPT ![c] = Append(@, Event("JSON.parse", "rawData"))]
    /\ settled' = [settled EXCEPT ![c] = "rejected"]
    /\ pc' = [pc EXCEPT ![c] = "done"]
    /\ UNCHANGED <<platform, BEANSTALK_CONF_PATH, fs, changes, config, elapsed,
                   result, probeSaw, diagSink>>

\* the read resolves, JSON.parse or the property access throws
ReadThenThrows(c) ==
    /\ pc[c] = "reading"
    /\ fs[ReadPath(c)].kind = "file"
    /\ AfterRead(fs[ReadPath(c)].data).throws
    /\ readSaw' = [readSaw EXCEPT ![c] = fs[ReadPath(c)]]
    /\ Catch(c, AfterRead(fs[ReadPath(c)].data).error, <<Event("JSON.parse", "rawData")>>)
    /\ UNCHANGED <<platform, BEANSTALK_CONF_PATH, fs, changes, config, elapsed,
                   probeSaw>>

Populated(c) == pc[c] = "done" /\ result[c] # EmptyResource

\* a Resource whose version is taken from the content present at probe time
ReturnedResourceStale(c) ==
    LET fresh == AfterRead(fs[ReadPath(c)].data)
        stale == AfterRead(probeSaw[c].data)
    IN  IF stale.throws THEN fresh.resource
        ELSE [fresh.resource EXCEPT ![SERVICE_VERSION] =
                                        stale.resource[SERVICE_VERSION]]

\* the Resource built from the rawData of this call's own read
ReturnedResource(c) == AfterRead(fs[ReadPath(c)].data).resource

\* a detector that memoizes its first populated Resource
ReadThenReturnsMemo(c) ==
    /\ pc[c] = "reading"
    /\ fs[ReadPath(c)].kind = "file"
    /\ ~AfterRead(fs[ReadPath(c)].data).throws
    /\ readSaw' = [readSaw EXCEPT ![c] = fs[ReadPath(c)]]
    /\ trace' = [trace EXCEPT ![c] = @ \o
                    <<Event("JSON.parse", "rawData"), Event("return", "resource")>>]
    /\ result' = [result EXCEPT ![c] =
                     IF \E d \in Calls : Populated(d)
                     THEN result[CHOOSE d \in Calls : Populated(d)]
                     ELSE AfterRead(fs[ReadPath(c)].data).resource]
    /\ settled' = [settled EXCEPT ![c] = "fulfilled"]
    /\ pc' = [pc EXCEPT ![c] = "done"]
    /\ UNCHANGED <<platform, BEANSTALK_CONF_PATH, fs, changes, config, elapsed,
                   probeSaw, diagSink>>

\* the read resolves, the content parses and the Resource is returned
ReadThenReturns(c) ==
    /\ pc[c] = "reading"
    /\ fs[ReadPath(c)].kind = "file"
    /\ ~AfterRead(fs[ReadPath(c)].data).throws
    /\ readSaw' = [readSaw EXCEPT ![c] = fs[ReadPath(c)]]
    /\ trace' = [trace EXCEPT ![c] = @ \o
                    <<Event("JSON.parse", "rawData"), Event("return", "resource")>>]
    /\ result' = [result EXCEPT ![c] = ReturnedResource(c)]
    /\ settled' = [settled EXCEPT ![c] = "fulfilled"]
    /\ pc' = [pc EXCEPT ![c] = "done"]
    /\ UNCHANGED <<platform, BEANSTALK_CONF_PATH, fs, changes, config, elapsed,
                   probeSaw, diagSink>>

\* an external actor creates, removes, protects or rewrites the platform's
\* configuration file
FileChange(p, s) ==
    /\ changes < MaxChanges
    /\ p = ConfPathFor(platform)
    /\ fs[p] # s
    /\ fs' = [fs EXCEPT ![p] = s]
    /\ changes' = changes + 1
    /\ UNCHANGED <<platform, BEANSTALK_CONF_PATH, pc, config, elapsed, settled,
                   result, probeSaw, readSaw, trace, diagSink>>

Pending(c) == pc[c] \in {"probing", "reading"}

\* time passes while calls are suspended at an await
Tick ==
    /\ \E c \in Calls : Pending(c)
    /\ \A c \in Calls : Pending(c) => elapsed[c] < MaxElapsed
    /\ elapsed' = [c \in Calls |-> IF Pending(c) THEN elapsed[c] + 1 ELSE elapsed[c]]
    /\ UNCHANGED <<platform, BEANSTALK_CONF_PATH, fs, changes, pc, config, settled,
                   result, probeSaw, readSaw, trace, diagSink>>

Next ==
    \/ \E c \in Calls : DetectStart(c)
    \/ \E c \in Calls : AccessFails(c)
    \/ \E c \in Calls : AccessSucceeds(c)
    \/ \E c \in Calls : ReadFails(c)
    \/ \E c \in Calls : ReadThenThrows(c)
    \/ \E c \in Calls : ReadThenReturns(c)
    \/ \E p \in Paths, s \in FileStates : FileChange(p, s)

Spec == Init /\ [][Next]_vars

TimedNext == Next \/ Tick

TimedSpec == Init /\ [][TimedNext]_vars

-----------------------------------------------------------------------------
(* Properties *)

Done(c) == pc[c] = "done"

ProbeFailed(c) == Done(c) /\ probeSaw[c].kind # "file"
ReadFailed(c) == Done(c) /\ probeSaw[c].kind = "file" /\ readSaw[c].kind # "file"
ReadOk(c) == Done(c) /\ probeSaw[c].kind = "file" /\ readSaw[c].kind = "file"
\* JSON.parse and the rest of the try block, tabulated over the contents
ParseOf == [toks \in Contents |-> JSONParse(toks)]
AfterReadOf == [toks \in Contents |-> AfterRead(toks)]

ParseThrew(c) == ReadOk(c) /\ ParseOf[readSaw[c].data].throws
ParsedData(c) == ParseOf[readSaw[c].data].value
ParsedNull(c) == ReadOk(c) /\ ~ParseThrew(c) /\ ParsedData(c).type = "null"
FailurePath(c) == ProbeFailed(c) \/ ReadFailed(c) \/ ParseThrew(c) \/ ParsedNull(c)

ExpectedFields == {"environment_name", "version_label", "deployment_id"}

Ops(c) == {trace[c][i].op : i \in DOMAIN trace[c]}
Messages(c) == {i \in DOMAIN diagSink : diagSink[i].call = c}

\* C1: detect never rejects: whatever the outcome of the access probe, of the
\* read and of JSON.parse, the promise is pending only while an I/O call is
\* outstanding and is otherwise fulfilled with a Resource; when the probe
\* failed, the read failed or the parse threw, that Resource is the empty one.
C1_NeverRejects ==
    \A c \in Calls :
        /\ settled[c] # "rejected"
        /\ Done(c) => settled[c] = "fulfilled"
        /\ settled[c] = "pending" <=> Pending(c)
        /\ (ProbeFailed(c) \/ ReadFailed(c) \/ ParseThrew(c))
              => result[c] = EmptyResource

C1_Witness ==
    \E c \in Calls :
        /\ ParseThrew(c)
        /\ settled[c] = "fulfilled"
        /\ result[c] = EmptyResource

\* C2: when the file read parses to an object with environment_name = n,
\* version_label = v and deployment_id = d, the Resource has exactly the keys
\* cloud.provider = aws, cloud.platform = aws_elastic_beanstalk,
\* service.name = aws_elastic_beanstalk, service.namespace = n,
\* service.version = v and service.instance.id = d.
C2_WellFormedMapping ==
    \A c \in Calls :
        /\ (ReadOk(c) /\ ~ParseThrew(c) /\ ParsedData(c).type = "object"
               /\ ExpectedFields \subseteq DOMAIN ParsedData(c).members)
              => /\ DOMAIN result[c] = AttributeKeys
                 /\ result[c]["cloud.provider"] = Str("aws")
                 /\ result[c]["cloud.platform"] = Str("aws_elastic_beanstalk")
                 /\ result[c]["service.name"] = Str("aws_elastic_beanstalk")
                 /\ result[c]["service.namespace"] =
                        ParsedData(c).members["environment_name"]
                 /\ result[c]["service.version"] =
                        ParsedData(c).members["version_label"]
                 /\ result[c]["service.instance.id"] =
                        ParsedData(c).members["deployment_id"]
        /\ (ReadOk(c) /\ readSaw[c].data = ConfProd)
              => /\ result[c]["service.namespace"] = Str("prod")
                 /\ result[c]["service.version"] = Str("v1")
                 /\ result[c]["service.instance.id"] = Str("i-123")
        /\ (ReadOk(c) /\ readSaw[c].data = ConfStaging)
              => /\ result[c]["service.namespace"] = Str("staging")
                 /\ result[c]["service.version"] = Str("v2")
                 /\ result[c]["service.instance.id"] = Str("i-456")

C2_Witness ==
    \E c \in Calls :
        /\ ReadOk(c)
        /\ readSaw[c].data = ConfStaging
        /\ result[c]["service.version"] = Str("v2")

LacksStructure(val) ==
    \/ val.type # "object"
    \/ ~(ExpectedFields \subseteq DOMAIN val.members)

\* C3: when the file is readable but its content fails to parse, or parses to
\* a value that lacks the expected structure (a number, a string, an array,
\* an object missing one of the three fields), detect returns the empty
\* Resource.
C3_MalformedIsEmpty ==
    \A c \in Calls :
        (ReadOk(c) /\ (ParseThrew(c) \/ LacksStructure(ParsedData(c))))
            => result[c] = EmptyResource

\* C4: every key present in a Resource returned by detect has a defined,
\* non-null value; the key of an absent field is omitted.
C4_PresentKeysDefined ==
    \A c \in Calls :
        Done(c) => \A key \in DOMAIN result[c] :
                      result[c][key].type \notin {"undefined", "null"}

\* C5: a detect call completes within the timeout of the config it is given:
\* a call is never still pending after more than that time, and a call that
\* completed did so within it.
C5_CompletesWithinTimeout ==
    \A c \in Calls :
        (Pending(c) \/ Done(c)) => elapsed[c] <= config[c].timeout

\* C6: the access probe is the first call of detect and the read is issued
\* only after it succeeded; when the probe fails neither the read nor
\* JSON.parse is issued and the empty Resource is returned.
C6_ProbeBeforeRead ==
    \A c \in Calls :
        /\ \A i \in DOMAIN trace[c] :
              /\ trace[c][i].op = "access" <=> i = 1
              /\ trace[c][i].op = "readFile"
                    => i = 2 /\ probeSaw[c].kind = "file"
              /\ trace[c][i].op = "JSON.parse"
                    => i = 3 /\ trace[c][2].op = "readFile"
        /\ ProbeFailed(c)
              => /\ Ops(c) \cap {"readFile", "JSON.parse"} = {}
                 /\ result[c] = EmptyResource
        /\ pc[c] = "reading" => probeSaw[c].kind = "file"

C6_Witness ==
    \E c, d \in Calls :
        /\ ProbeFailed(c)
        /\ "readFile" \notin Ops(c)
        /\ ReadOk(d)
        /\ trace[d][2].op = "readFile"

\* C7: BEANSTALK_CONF_PATH is the Windows path exactly when the platform is
\* win32 and the default path otherwise, in every state (so no detect call
\* changes it), and the probe and the read of every call are given that path.
C7_PathFixed ==
    /\ platform = "win32" => BEANSTALK_CONF_PATH = WIN_OS_BEANSTALK_CONF_PATH
    /\ platform # "win32" => BEANSTALK_CONF_PATH = DEFAULT_BEANSTALK_CONF_PATH
    /\ \A c \in Calls : \A i \in DOMAIN trace[c] :
          trace[c][i].op \in {"access", "readFile"}
              => trace[c][i].arg = BEANSTALK_CONF_PATH

C7_Witness ==
    /\ platform = "win32"
    /\ \E c, d \in Calls :
          /\ ProbeFailed(c)
          /\ ReadOk(d)
          /\ trace[d][2] = Event("readFile", WIN_OS_BEANSTALK_CONF_PATH)

\* what a call that observed these file states returns
Observed(c) ==
    IF probeSaw[c].kind # "file" THEN <<"probe failed">>
    ELSE <<"probe ok", readSaw[c]>>

ResultFor(obs) ==
    IF obs[1] = "probe failed" THEN EmptyResource
    ELSE IF obs[2].kind # "file" THEN EmptyResource
    ELSE AfterReadOf[obs[2].data].resource

\* C8: detect keeps no memory across calls: the result of every call,
\* whether it overlapped with another call or followed it, is determined by
\* the file state its own probe and read observed, and two calls that
\* observed the same file state return equal Resources.
C8_NoMemory ==
    \A c \in Calls :
        Done(c) =>
            /\ result[c] = ResultFor(Observed(c))
            /\ \A d \in Calls :
                  (Done(d) /\ Observed(d) = Observed(c)) => result[d] = result[c]

C8_Witness ==
    \E c, d \in Calls :
        /\ c # d
        /\ Done(c) /\ Done(d)
        /\ Populated(c) /\ Populated(d)
        /\ Observed(c) # Observed(d)
        /\ result[c] # result[d]

FromOneContent(res, toks) ==
    /\ ~ParseOf[toks].throws
    /\ DOMAIN res = AttributeKeys
    /\ res["service.namespace"] =
          GetProp(ParseOf[toks].value, "environment_name").value
    /\ res["service.version"] =
          GetProp(ParseOf[toks].value, "version_label").value
    /\ res["service.instance.id"] =
          GetProp(ParseOf[toks].value, "deployment_id").value

\* C9: when the file is removed, protected or rewritten between the probe and
\* the read, detect still resolves, with the empty Resource when the read
\* fails or its content does not parse, and otherwise with a Resource whose
\* service.namespace, service.version and service.instance.id all come from
\* the one content that read returned.
C9_SingleRead ==
    \A c \in Calls :
        Done(c) =>
            /\ settled[c] = "fulfilled"
            /\ (ReadFailed(c) \/ ParseThrew(c)) => result[c] = EmptyResource
            /\ \/ result[c] = EmptyResource
               \/ /\ ReadOk(c)
                  /\ \E toks \in Contents :
                        /\ toks = readSaw[c].data
                        /\ FromOneContent(result[c], toks)

C9_Witness ==
    \E c \in Calls :
        /\ ReadOk(c)
        /\ probeSaw[c] = File(ConfProd)
        /\ readSaw[c] = File(ConfStaging)
        /\ FromOneContent(result[c], ConfStaging)

DebugEvents(c) == {i \in DOMAIN trace[c] : trace[c][i].op = "diag.debug"}

\* C10: a call that ends on the failure path has sent exactly one message,
\* at debug level, to the diagnostic sink, sent before it returned the empty
\* Resource; a call that returns a populated Resource, or that is still
\* pending, has sent none; and no call is rejected.
C10_DiagOnFailure ==
    \A c \in Calls :
        /\ settled[c] # "rejected"
        /\ FailurePath(c)
              => /\ Cardinality(Messages(c)) = 1
                 /\ \A i \in Messages(c) : diagSink[i].level = "debug"
                 /\ DebugEvents(c) = {Len(trace[c]) - 1}
                 /\ trace[c][Len(trace[c])] = Event("return", "empty")
                 /\ result[c] = EmptyResource
        /\ ~FailurePath(c)
              => /\ Messages(c) = {}
                 /\ DebugEvents(c) = {}
        /\ Populated(c) => ~FailurePath(c)

C10_Witness ==
    \E c, d \in Calls :
        /\ ReadFailed(c)
        /\ Cardinality(Messages(c)) = 1
        /\ Populated(d)
        /\ Messages(d) = {}
        /\ Len(diagSink) = 1

====
